---- MODULE Spec2Model ----
(***************************************************************************)
(* Model of clean_data (data_cleaner.py): a table is cut into row chunks,  *)
(* each chunk is sent to the inference service (ollama.chat), the reply is *)
(* parsed as CSV, reindexed to the target columns and accumulated; the     *)
(* accumulated chunk-tables are concatenated and returned.                 *)
(*                                                                         *)
(* The service and the CSV parser are the environment: every call either   *)
(* raises or returns a reply, and a reply either parses or does not.       *)
(***************************************************************************)
EXTENDS Integers, Sequences, FiniteSets, TLC

\* ---- bounds of the model ----
MaxRows == 3
MaxChunk == 2
MaxReplyRows == 2

\* ---- small input sets ----
\* target_columns lists a caller may pass (distinct names)
TargetLists == { <<"A", "B", "C">>, <<"A", "B">> }
\* headers a reply may carry: exact, missing a column, reordered, extra column
ReplyHeaders == { <<"A", "B", "C">>, <<"A", "B">>, <<"B", "A">>, <<"A", "X", "B">> }
\* chunk_size values a caller may pass (0 and negatives are accepted by the signature)
ChunkSizes == (0 - 1)..MaxChunk

\* ---- values ----
Range(s) == { s[x] : x \in 1..Len(s) }
Min(a, b) == IF a < b THEN a ELSE b

\* a cell of the reply to chunk k, data row j, column c
Cell(k, j, c) == [chunk |-> k, row |-> j, col |-> c]
\* the empty/absent value reindex fills in
NaN == [chunk |-> 0 - 1, row |-> 0, col |-> "NaN"]

\* the name `response` before its first assignment
Unbound == [chunk |-> 0 - 1, kind |-> "unbound", header |-> <<>>, nrows |-> 0]
\* pd.DataFrame()
EmptyTable == [columns |-> <<>>, rows |-> <<>>]

\* the replies ollama.chat may return for chunk k: text that is not CSV,
\* or CSV text with some header and some number of data rows
Replies(k) ==
    { [chunk |-> k, kind |-> "garbage", header |-> <<>>, nrows |-> 0] }
    \cup { [chunk |-> k, kind |-> "csv", header |-> h, nrows |-> n] :
              h \in ReplyHeaders, n \in 0..MaxReplyRows }

VARIABLES
    df,              \* input table: the sequence of its rows
    target_columns,  \* requested column list
    chunk_size,      \* rows per chunk
    compat_StringIO, \* whether the installed pandas still has pd.compat.StringIO
    pc,              \* position in clean_data
    i,               \* loop variable of `for i in range(0, len(df), chunk_size)`
    response,        \* local `response`
    cleaned_chunks,  \* local `cleaned_chunks`
    result,          \* the returned table
    exception,       \* the exception that left clean_data, "none" if none
    prompts,         \* history: the chunks whose prompt was passed to ollama.chat, in order
    outcome,         \* history: per attempted chunk, how its try block ended and the reply received
    log              \* history: the "Response was:" lines printed

vars == << df, target_columns, chunk_size, compat_StringIO, pc, i, response,
           cleaned_chunks, result, exception, prompts, outcome, log >>

inputs == << df, target_columns, chunk_size, compat_StringIO >>

\* ---- pure parts of the code ----

\* variant: the stop value is included, as with range(0, len(df) + 1, chunk_size)
RangeValuesInclusive(n, step) ==
    IF step > 0 THEN { v \in 0..n : v % step = 0 } ELSE {}

\* range(0, n, step) for step # 0, as the set of its values
RangeValues(n, step) ==
    IF step > 0 THEN { v \in 0..n : v < n /\ v % step = 0 } ELSE {}

\* variant: the slice takes its end row too, as with df.loc[i:i + chunk_size]
SliceInclusive(d, lo, hi) == SubSeq(d, Min(lo, Len(d)) + 1, Min(hi + 1, Len(d)))

\* df[i:i + chunk_size]
Slice(d, lo, hi) == SubSeq(d, Min(lo, Len(d)) + 1, Min(hi, Len(d)))

Chunk(d, start, size) == Slice(d, start, start + size)

\* pd.read_csv on a CSV reply: header row, then the data rows
ReadCsv(r) ==
    [columns |-> r.header,
     rows    |-> [j \in 1..r.nrows |->
                    [x \in 1..Len(r.header) |-> Cell(r.chunk, j, r.header[x])]]]

\* variant: the headers are compared as sets, as with set(columns) != set(target_columns)
ColumnsDifferAsSets(columns, target) == Range(columns) # Range(target)

\* list(cleaned_chunk.columns) != target_columns
ColumnsDiffer(columns, target) == columns # target

\* position of column c in a column list with distinct names
IndexOf(columns, c) == CHOOSE x \in 1..Len(columns) : columns[x] = c

\* DataFrame.reindex(columns=target)
Reindex(t, target) ==
    [columns |-> target,
     rows    |-> [j \in 1..Len(t.rows) |->
                    [x \in 1..Len(target) |->
                        IF target[x] \in Range(t.columns)
                        THEN t.rows[j][IndexOf(t.columns, target[x])]
                        ELSE NaN]]]

\* lines 55-57: the chunk-table that is appended
Normalise(t, target) ==
    IF ColumnsDiffer(t.columns, target) THEN Reindex(t, target) ELSE t

\* columns of an outer-join concat: first appearance order
RECURSIVE UnionColumns(_)
UnionColumns(tables) ==
    IF tables = <<>> THEN <<>>
    ELSE LET before == UnionColumns(SubSeq(tables, 1, Len(tables) - 1))
             last   == tables[Len(tables)].columns
         IN  before \o SelectSeq(last, LAMBDA c : c \notin Range(before))

RECURSIVE ConcatRows(_, _)
ConcatRows(tables, columns) ==
    IF tables = <<>> THEN <<>>
    ELSE Reindex(Head(tables), columns).rows \o ConcatRows(Tail(tables), columns)

\* variant: only the last chunk-table is returned
ConcatLastOnly(tables) == tables[Len(tables)]

\* pd.concat(tables, ignore_index=True)
Concat(tables) ==
    [columns |-> UnionColumns(tables),
     rows    |-> ConcatRows(tables, UnionColumns(tables))]

\* ---- the state machine ----

Init ==
    /\ \E n \in 0..MaxRows : df = [r \in 1..n |-> r]
    /\ target_columns \in TargetLists
    /\ chunk_size \in ChunkSizes
    /\ compat_StringIO \in BOOLEAN
    /\ pc = "start"
    /\ i = 0
    /\ response = Unbound
    /\ cleaned_chunks = <<>>
    /\ result = EmptyTable
    /\ exception = "none"
    /\ prompts = <<>>
    /\ outcome = <<>>
    /\ log = <<>>

\* line 23-24: cleaned_chunks = []; range(0, len(df), chunk_size) is built
\* (range raises ValueError when the step is zero)
Enter ==
    /\ pc = "start"
    /\ IF chunk_size = 0
       THEN /\ exception' = "ValueError"
            /\ pc' = "raised"
       ELSE /\ exception' = exception
            /\ pc' = "for"
    /\ UNCHANGED << inputs, i, response, cleaned_chunks, result, prompts, outcome, log >>

\* line 24-49: the loop takes its next value and builds chunk and prompt,
\* or is exhausted
ForNext ==
    /\ pc = "for"
    /\ IF i \in RangeValues(Len(df), chunk_size)
       THEN pc' = "chat"
       ELSE pc' = "concat"
    /\ UNCHANGED << inputs, i, response, cleaned_chunks, result, exception,
                    prompts, outcome, log >>

\* line 52: ollama.chat is called with the prompt and returns
ChatReturns ==
    /\ pc = "chat"
    /\ \E r \in Replies(i \div chunk_size) : response' = r
    /\ prompts' = Append(prompts, Chunk(df, i, chunk_size))
    /\ pc' = "parse"
    /\ UNCHANGED << inputs, i, cleaned_chunks, result, exception, outcome, log >>

\* line 52: ollama.chat is called with the prompt and raises
ChatRaises ==
    /\ pc = "chat"
    /\ prompts' = Append(prompts, Chunk(df, i, chunk_size))
    /\ outcome' = Append(outcome, [status |-> "service_error", reply |-> Unbound])
    /\ pc' = "except"
    /\ UNCHANGED << inputs, i, response, cleaned_chunks, result, exception, log >>

\* variant: the loop stays on the same chunk
NextStartRetry(start, size) == start

\* the value the loop variable takes after start
NextStart(start, size) == start + size

\* line 53-59: the reply parses; the chunk-table is normalised and appended
ParseOk ==
    /\ pc = "parse"
    /\ compat_StringIO
    /\ response.kind = "csv"
    /\ cleaned_chunks' = Append(cleaned_chunks, Normalise(ReadCsv(response), target_columns))
    /\ outcome' = Append(outcome, [status |-> "ok", reply |-> response])
    /\ i' = NextStart(i, chunk_size)
    /\ pc' = "for"
    /\ UNCHANGED << inputs, response, result, exception, prompts, log >>

\* line 53: pd.compat.StringIO is missing, or read_csv rejects the text
ParseFails ==
    /\ pc = "parse"
    /\ ~compat_StringIO \/ response.kind = "garbage"
    /\ outcome' = Append(outcome, [status |-> "parse_failure", reply |-> response])
    /\ pc' = "except"
    /\ UNCHANGED << inputs, i, response, cleaned_chunks, result, exception, prompts, log >>

\* line 60-64: the handler prints the error, the prompt and `response`;
\* reading `response` before any assignment raises UnboundLocalError
ExceptHandler ==
    /\ pc = "except"
    /\ IF response = Unbound
       THEN /\ exception' = "UnboundLocalError"
            /\ pc' = "raised"
            /\ UNCHANGED << i, log >>
       ELSE /\ log' = Append(log, [chunk |-> i \div chunk_size, response |-> response])
            /\ i' = NextStart(i, chunk_size)
            /\ pc' = "for"
            /\ UNCHANGED exception
    /\ UNCHANGED << inputs, response, cleaned_chunks, result, prompts, outcome >>

\* line 66-70
Return ==
    /\ pc = "concat"
    /\ result' = IF cleaned_chunks # <<>> THEN Concat(cleaned_chunks) ELSE EmptyTable
    /\ pc' = "returned"
    /\ UNCHANGED << inputs, i, response, cleaned_chunks, exception, prompts, outcome, log >>

Next ==
    \/ Enter
    \/ ForNext
    \/ ChatReturns
    \/ ChatRaises
    \/ ParseOk
    \/ ParseFails
    \/ ExceptHandler
    \/ Return

Spec == Init /\ [][Next]_vars

\* ---- vocabulary of the properties ----

N == Len(df)
Terminated == pc \in {"returned", "raised"}
Ceil(a, b) == (a + b - 1) \div b
NumChunks == Ceil(N, chunk_size)
\* number of rows of chunk k (k = 0, 1, ...) of an N-row table
ChunkLen(k) == Min(chunk_size, N - k * chunk_size)
Succeeded == SelectSeq(outcome, LAMBDA o : o.status = "ok")
AllAttempted == Len(outcome) = NumChunks

\* the rows a successful chunk contributes: its reply's data rows, laid out
\* on the target columns
ExpectedChunkRows(r) ==
    [j \in 1..r.nrows |->
        [x \in 1..Len(target_columns) |->
            IF \E y \in 1..Len(r.header) : r.header[y] = target_columns[x]
            THEN Cell(r.chunk, j, target_columns[x])
            ELSE NaN]]

RECURSIVE ExpectedRows(_)
ExpectedRows(os) ==
    IF os = <<>> THEN <<>>
    ELSE ExpectedChunkRows(Head(os).reply) \o ExpectedRows(Tail(os))

RECURSIVE Flatten(_)
Flatten(ss) == IF ss = <<>> THEN <<>> ELSE Head(ss) \o Flatten(Tail(ss))

\* ---- C1 ----
\* C1: no exception ever leaves clean_data, whatever each chunk's service
\* call does (stated here for chunk_size >= 1; violated by the code).
C1_NoErrorEscapes == chunk_size >= 1 => exception = "none"

\* ---- C2 ----
\* C2: when clean_data has ended, the number of prompts issued is
\* ceil(N / chunk_size), whatever the outcomes of the chunks (violated by
\* the code when the first service call raises).
C2_PromptCount ==
    (Terminated /\ chunk_size >= 1) => Len(prompts) = Ceil(N, chunk_size)

\* ---- C3 ----
AllOkExact ==
    /\ AllAttempted
    /\ \A x \in 1..Len(outcome) :
          outcome[x].status = "ok" /\ outcome[x].reply.header = target_columns

AllOkExactSameRows ==
    /\ AllOkExact
    /\ \A x \in 1..Len(outcome) : outcome[x].reply.nrows = ChunkLen(x - 1)

\* C3 as stated: if every chunk's reply parses and carries exactly the
\* requested header, the returned table has N rows and the target columns.
C3_Original ==
    (pc = "returned" /\ chunk_size >= 1 /\ AllOkExact)
        => (Len(result.rows) = N /\ result.columns = target_columns)

\* C3 amended: for a non-empty table, if every chunk's reply parses, carries
\* exactly the requested header and has as many data rows as its chunk, the
\* returned table has N rows and its columns are the target list in order.
C3_RowsAndColumns ==
    (pc = "returned" /\ chunk_size >= 1 /\ N >= 1 /\ AllOkExactSameRows)
        => (Len(result.rows) = N /\ result.columns = target_columns)

C3_Witness ==
    /\ pc = "returned" /\ chunk_size >= 1 /\ AllOkExactSameRows
    /\ N = 3 /\ Len(outcome) = 2 /\ Len(result.rows) = 3

\* ---- C4 ----
\* C4: a failed chunk does not abort the run: when clean_data has ended it
\* has returned, every chunk was attempted, and the returned rows are the
\* rows of the successful chunks in chunk order (violated by the code when
\* the first service call raises).
C4_FailedChunkSkipped ==
    (Terminated /\ chunk_size >= 1)
        => /\ pc = "returned"
           /\ AllAttempted
           /\ result.rows = ExpectedRows(Succeeded)

\* ---- C5 ----
\* C5: every accumulated chunk-table has exactly the target columns in the
\* target order; a target column the reply lacked is all empty, a reply
\* column outside the target is gone, and shared columns keep their values.
C5_ChunkTablesOnTarget ==
    /\ Len(cleaned_chunks) = Len(Succeeded)
    /\ \A x \in 1..Len(cleaned_chunks) :
          /\ cleaned_chunks[x].columns = target_columns
          /\ cleaned_chunks[x].rows = ExpectedChunkRows(Succeeded[x].reply)

C5_Witness ==
    /\ target_columns = <<"A", "B", "C">>
    /\ \E x \in 1..Len(cleaned_chunks) :
          /\ Succeeded[x].reply.header = <<"A", "B">>
          /\ Len(cleaned_chunks[x].rows) >= 1
          /\ cleaned_chunks[x].rows[1][3] = NaN
    /\ \E x \in 1..Len(cleaned_chunks) :
          /\ Succeeded[x].reply.header = <<"A", "X", "B">>
          /\ Len(cleaned_chunks[x].rows) >= 1
          /\ cleaned_chunks[x].rows[1][2] = Cell(x - 1, 1, "B")

\* ---- C6 ----
\* C6 as stated: with chunk_size >= N, exactly one prompt is issued, the
\* empty table included.
C6_Original ==
    (Terminated /\ chunk_size >= 1 /\ chunk_size >= N) => Len(prompts) = 1

\* C6 amended: with chunk_size >= N and N >= 1 exactly one prompt is issued;
\* for an empty table no prompt is issued.
C6_OnePrompt ==
    Terminated =>
        /\ (N >= 1 /\ chunk_size >= N) => Len(prompts) = 1
        /\ N = 0 => Len(prompts) = 0

C6_Witness ==
    /\ pc = "returned" /\ N = 2 /\ chunk_size = 2 /\ Len(prompts) = 1

\* ---- C7 ----
\* C7: if every chunk failed, by service error or by parse failure,
\* clean_data returns an empty table (violated by the code when the first
\* chunk fails by service error).
C7_AllFailedGivesEmpty ==
    ( /\ Terminated /\ chunk_size >= 1 /\ N >= 1
      /\ AllAttempted
      /\ \A x \in 1..Len(outcome) : outcome[x].status # "ok" )
        => (pc = "returned" /\ result = EmptyTable)

\* ---- C8 ----
\* C8: when the handler logs a failed chunk, `response` is the reply that
\* was received for that same chunk, never an earlier chunk's reply and
\* never unassigned (violated by the code when the service call raises).
C8_LoggedReplyIsCurrent ==
    pc = "except" => (response # Unbound /\ response.chunk = i \div chunk_size)

====
